---- MODULE Spec2Model ----
(***************************************************************************)
(* Model of the SBOM tool: scanner (sbom/scanner.py, sbom/models.py),     *)
(* writer (sbom/writer.py) and command line entry (sbom/cli.py).           *)
(*                                                                         *)
(* Text is a sequence of one-character strings, so that the string         *)
(* operations of the parsers (split, strip, substring test) are computed   *)
(* and not assumed.  None is the one-element sequence <<"None">>, which is *)
(* no text (every element of a text is a single character) and differs     *)
(* from the empty text << >>.                                              *)
(*                                                                         *)
(* A value a Python function computes once and uses several times is a     *)
(* parameter of a helper operator here (ScanStep, RecordOfLine, ...).      *)
(***************************************************************************)
EXTENDS Integers, Sequences, FiniteSets, TLC

VARIABLES
    fs,             \* the root directory: entry name -> directory or file
    git,            \* repository -> what `git log` does there
    dependencies,   \* self.dependencies of the DependencyScanner
    result,         \* what the last call of get_dependencies did, or Pending
    firstReturn,    \* the first return of get_dependencies on the scanner
    changes,        \* number of changes made to the tree so far
    reqText,        \* SpecReq: content of the requirements.txt being parsed
    reqOut,         \* SpecReq: result of _parse_python_dependencies, or Pending
    lockData,       \* SpecLock: content of the package-lock.json being parsed
    lockOut,        \* SpecLock: result of _parse_package_lock_json, or Pending
    pkgData,        \* SpecPkg: content of the package.json being parsed
    pkgOut,         \* SpecPkg: result of _parse_package_json, or Pending
    corpus,         \* the records handed to the SBOMWriter
    disk,           \* the files of the output directory that cannot be opened
    cwd,            \* the output directory: file name -> what was written
    earlier,        \* SpecWrite: the output directory before the last write
    exit_code       \* SpecCli: what main returned, or Pending

scanVars == <<fs, git, dependencies, result, firstReturn, changes>>
reqVars == <<reqText, reqOut>>
lockVars == <<lockData, lockOut>>
pkgVars == <<pkgData, pkgOut>>
outVars == <<corpus, disk, cwd, earlier, exit_code>>
vars == <<scanVars, reqVars, lockVars, pkgVars, outVars>>

-----------------------------------------------------------------------------
(* Bounds *)

\* longest requirements.txt content, in characters
MaxLen == 4

\* most changes to the tree during the life of one scanner
MaxChanges == 1

\* most entries of the `packages` map of a lockfile, the "" entry not counted
MaxPackages == 2

\* most records of a corpus handed to the SBOMWriter directly
MaxRecords == 2

-----------------------------------------------------------------------------
(* Python values *)

None == <<"None">>

Pending == [kind |-> "pending"]

Returned(v) == [kind |-> "return", value |-> v]

\* a function that falls off its end returns None
ReturnedNone == [kind |-> "return None"]

\* an exception: its class and the values its message carries (the lockfile
\* version, for the two lockfile version errors)
Raised(type, args) == [kind |-> "raise", type |-> type, args |-> args]

\* a function that logs gives its outcome and the warnings it logged, in order
Logged(out, log) == [out |-> out, log |-> log]

Warning(msg, at) == [msg |-> msg, at |-> at]

\* dict.get(key, default)
Get(d, key, default) == IF key \in DOMAIN d THEN d[key] ELSE default

-----------------------------------------------------------------------------
(* str operations *)

\* the characters str.strip() removes (those of them the model's texts use)
Whitespace == {" ", "\n"}

\* sep occurs in s at index i
OccursAt(s, sep, i) ==
    /\ i >= 1
    /\ i + Len(sep) - 1 <= Len(s)
    /\ SubSeq(s, i, i + Len(sep) - 1) = sep

\* the least element of a non-empty set of numbers
Least(S) == CHOOSE i \in S : \A j \in S : i <= j

\* str.find, 1-based; 0 when sep does not occur
Find(s, sep) ==
    IF \E i \in 1..Len(s) : OccursAt(s, sep, i)
    THEN Least({i \in 1..Len(s) : OccursAt(s, sep, i)})
    ELSE 0

\* `sep in s`
Contains(s, sep) == \E i \in 1..Len(s) : OccursAt(s, sep, i)

\* s.split(sep, maxsplit), i being s.find(sep); maxsplit = -1 is no limit
RECURSIVE SplitAt(_, _, _, _)
SplitAt(s, sep, maxsplit, i) ==
    IF i = 0 \/ maxsplit = 0
    THEN <<s>>
    ELSE <<SubSeq(s, 1, i - 1)>>
         \o SplitAt(SubSeq(s, i + Len(sep), Len(s)), sep,
                    IF maxsplit < 0 THEN maxsplit ELSE maxsplit - 1,
                    Find(SubSeq(s, i + Len(sep), Len(s)), sep))

Split(s, sep, maxsplit) == SplitAt(s, sep, maxsplit, Find(s, sep))

RECURSIVE LStrip(_)
LStrip(s) ==
    IF s # <<>> /\ Head(s) \in Whitespace THEN LStrip(Tail(s)) ELSE s

RECURSIVE RStrip(_)
RStrip(s) ==
    IF s # <<>> /\ s[Len(s)] \in Whitespace
    THEN RStrip(SubSeq(s, 1, Len(s) - 1))
    ELSE s

\* s.strip()
Strip(s) == RStrip(LStrip(s))

\* iteration over a text file: the lines, each with its line end; i is the
\* index of the first line end of text
RECURSIVE FileLinesAt(_, _)
FileLinesAt(text, i) ==
    IF text = <<>> THEN <<>>
    ELSE IF i = 0 THEN <<text>>
    ELSE <<SubSeq(text, 1, i)>>
         \o FileLinesAt(SubSeq(text, i + 1, Len(text)),
                        Find(SubSeq(text, i + 1, Len(text)), <<"\n">>))

FileLines(text) == FileLinesAt(text, Find(text, <<"\n">>))

-----------------------------------------------------------------------------
(* DependencyRecord *)

DependencyRecord(name, version, type, path, dev) ==
    [name |-> name, version |-> version, type |-> type, path |-> path,
     dev |-> dev, git_commit |-> None]

-----------------------------------------------------------------------------
(* _parse_python_dependencies *)

operators ==
    <<(<<"=", "=">>), (<<">", "=">>), (<<"<", "=">>), (<<"!", "=">>),
      (<<"~", "=">>), (<<">">>), (<<"<">>)>>

\* the loop `for op in operators: if op in line: ... break`, from index k on:
\* the index of the operator it stops at, 0 when it runs to its end
RECURSIVE FirstMatchingOp(_, _)
FirstMatchingOp(line, k) ==
    IF k > Len(operators) THEN 0
    ELSE IF Contains(line, operators[k]) THEN k
    ELSE FirstMatchingOp(line, k + 1)

\* name, version = line.split(op, 1); name.strip(); op + version
RecordOfParts(parts, op, path) ==
    DependencyRecord(Strip(parts[1]), op \o parts[2], "pip", path, FALSE)

\* a parser that gives a bare name the empty string as its version
RecordOfLine_empty_version(line, k, path) ==
    IF k = 0
    THEN DependencyRecord(line, <<>>, "pip", path, FALSE)
    ELSE RecordOfParts(Split(line, operators[k], 1), operators[k], path)

\* the record of a stripped, non-empty line, k being the operator found
RecordOfLine(line, k, path) ==
    IF k = 0
    THEN DependencyRecord(line, None, "pip", path, FALSE)
    ELSE RecordOfParts(Split(line, operators[k], 1), operators[k], path)

\* `if not line: continue`, and the rest of the loop body
ParseStrippedLine(line, path) ==
    IF line = <<>> THEN {}
    ELSE {RecordOfLine(line, FirstMatchingOp(line, 1), path)}

\* the body of the loop over the lines of the file, for one raw line:
\* the set holding the record of the line, empty for a skipped line
ParseRequirementLine(raw, path) ==
    ParseStrippedLine(Strip(Split(raw, <<"#">>, 1)[1]), path)

ParseLines(lines, path) ==
    UNION {ParseRequirementLine(lines[i], path) : i \in 1..Len(lines)}

_parse_python_dependencies(text, path) == ParseLines(FileLines(text), path)

-----------------------------------------------------------------------------
(* Parsed JSON (the value json.load returns)                               *)
(*                                                                         *)
(* A JSON object is a function from its keys; a key the object lacks is    *)
(* not in its DOMAIN.  The value of `dependencies` / `devDependencies` is  *)
(* tagged, because the parser behaves differently on a map and on any      *)
(* other JSON value.                                                       *)

JObject(m) == [t |-> "object", v |-> m]

\* a JSON value that is no object (an array, a string, null): it has no .items()
JArray == [t |-> "array", v |-> <<>>]

\* tree[repo].files[name] is what reading the file at path gives
ReadFile(tree, path) == tree[path[1]].files[path[2]]

-----------------------------------------------------------------------------
(* _parse_package / _parse_package_json *)

\* a parser that gives every record the default dev flag
PackageRecords_not_dev(m, path, dev) ==
    {DependencyRecord(name, m[name], "npm", path, FALSE) : name \in DOMAIN m}

\* the records of one name -> version map, all with the same dev flag
PackageRecords(m, path, dev) ==
    {DependencyRecord(name, m[name], "npm", path, dev) : name \in DOMAIN m}

\* the two set comprehensions, on the values of the two keys
ParsePackageMaps(deps, dev_deps, path) ==
    IF deps.t # "object" \/ dev_deps.t # "object"
    THEN Raised("AttributeError", <<>>)
    ELSE Returned(PackageRecords(deps.v, path, FALSE)
                  \cup PackageRecords(dev_deps.v, path, TRUE))

\* a parser that reads a missing `dependencies` as an empty map
_parse_package_lenient(package, path) ==
    ParsePackageMaps(Get(package, "dependencies", JObject(<<>>)),
                     Get(package, "devDependencies", JObject(<<>>)), path)

_parse_package(package, path) ==
    IF "dependencies" \notin DOMAIN package
    THEN Raised("KeyError", <<>>)
    ELSE ParsePackageMaps(package["dependencies"],
                          Get(package, "devDependencies", JObject(<<>>)), path)

_parse_package_json(tree, package_json) ==
    _parse_package(ReadFile(tree, package_json), package_json)

-----------------------------------------------------------------------------
(* _parse_package_lock_json *)

node_modules == <<"n", "o", "d", "e", "_", "m", "o", "d", "u", "l", "e", "s", "/">>

Last(seq) == seq[Len(seq)]

\* a parser that names a package by what follows the first "node_modules/"
LockName_after_first(name) == Last(Split(name, node_modules, 1))

\* name.split("node_modules/")[-1]
LockName(name) == Last(Split(name, node_modules, -1))

LockRecords(packages, path) ==
    {DependencyRecord(LockName(name),
                      Get(packages[name], "version", None),
                      "npm", path,
                      Get(packages[name], "dev", FALSE))
        : name \in DOMAIN packages \ {<<>>}}

\* the branches on lockfile_version
ParseLockVersion(data, lockfile_version, path) ==
    IF lockfile_version \in {1, 2}
    THEN Raised("NotImplementedError", <<lockfile_version>>)
    ELSE IF lockfile_version # 3
    THEN Raised("ValueError", <<lockfile_version>>)
    ELSE IF "packages" \notin DOMAIN data
    THEN Raised("KeyError", <<>>)
    ELSE Returned(LockRecords(data["packages"], path))

ParseLock(data, path) ==
    IF "lockfileVersion" \notin DOMAIN data
    THEN Raised("KeyError", <<>>)
    ELSE ParseLockVersion(data, data["lockfileVersion"], path)

_parse_package_lock_json(tree, package_lock_json) ==
    ParseLock(ReadFile(tree, package_lock_json), package_lock_json)

-----------------------------------------------------------------------------
(* _parse_javascript_dependencies *)

\* `if package_json is not None: return ...`, and the end of the function
ParsePackageJsonIfGiven(tree, package_json) ==
    IF package_json # None
    THEN _parse_package_json(tree, package_json)
    ELSE ReturnedNone

\* a dispatch that reads package.json whenever there is one, and the lockfile
\* only without it
AfterLock_manifest_first(tree, package_json, package_lock_json, lock) ==
    IF package_json # None
    THEN Logged(_parse_package_json(tree, package_json), <<>>)
    ELSE Logged(lock, <<>>)

\* a dispatch that falls back to package.json on every failure of the lockfile
\* parser
AfterLock_any_failure(tree, package_json, package_lock_json, lock) ==
    IF lock.kind = "raise"
    THEN Logged(ParsePackageJsonIfGiven(tree, package_json),
                <<Warning("unsupported lockfileVersion", package_lock_json)>>)
    ELSE Logged(lock, <<>>)

\* the try block, lock being the outcome of the lockfile parser
AfterLock(tree, package_json, package_lock_json, lock) ==
    IF lock.kind = "raise" /\ lock.type = "NotImplementedError"
    THEN Logged(ParsePackageJsonIfGiven(tree, package_json),
                <<Warning("unsupported lockfileVersion", package_lock_json)>>)
    ELSE Logged(lock, <<>>)

_parse_javascript_dependencies(tree, package_json, package_lock_json) ==
    IF package_lock_json # None
    THEN AfterLock(tree, package_json, package_lock_json,
                   _parse_package_lock_json(tree, package_lock_json))
    ELSE Logged(ParsePackageJsonIfGiven(tree, package_json), <<>>)

-----------------------------------------------------------------------------
(* _get_git_commit *)

\* what subprocess.check_output does for a repository
GitOutput(bytes) == [exc |-> "", output |-> bytes]

GitFails(exc) == [exc |-> exc, output |-> <<>>]

\* run is what check_output did
GitCommitOf(run, repo) ==
    IF run.exc = "CalledProcessError"
    THEN Logged(None, <<Warning("Git command failed", <<repo>>)>>)
    ELSE IF run.exc = "FileNotFoundError"
    THEN Logged(None, <<Warning("Git executable not found", <<repo>>)>>)
    ELSE Logged(Strip(run.output), <<>>)

_get_git_commit(env, repo) == GitCommitOf(env[repo], repo)

-----------------------------------------------------------------------------
(* _find_dependency_files / _scan_repo *)

_DEPENDENCY_FILENAMES == {"requirements.txt", "package.json", "package-lock.json"}

\* the names of the recognized files of the repository
_find_dependency_files(tree, repo) ==
    {name \in DOMAIN tree[repo].files : name \in _DEPENDENCY_FILENAMES}

\* dependency_files.get(name): the path of the file, or None
FileOrNone(tree, repo, name) ==
    IF name \in _find_dependency_files(tree, repo) THEN <<repo, name>> ELSE None

\* a repository scan that returns the records as the parsers made them
Stamp_keeping(deps, git_commit) == deps

\* dataclasses.replace(dep, git_commit=git_commit) over the set
Stamp(deps, git_commit) ==
    {[dep EXCEPT !.git_commit = git_commit] : dep \in deps}

\* the outcome of a repository scan: out, the warnings logged, and the
\* repositories whose commit was resolved (one entry per call of _get_git_commit)
RepoResult(out, log, git_calls) ==
    [out |-> out, log |-> log, git_calls |-> git_calls]

\* the last two lines of _scan_repo
StampAll(repo_dependencies, log, commit, repo) ==
    RepoResult(Returned(Stamp(repo_dependencies, commit.out)),
               log \o commit.log, <<repo>>)

\* repo_dependencies.update(javascript_dependencies) and what follows it
UpdateWithJs(env, repo, python_dependencies, js) ==
    IF js.out.kind = "raise"
    THEN RepoResult(js.out, js.log, <<>>)
    ELSE IF js.out.kind = "return None"
    \* set.update(None)
    THEN RepoResult(Raised("TypeError", <<>>), js.log, <<>>)
    ELSE StampAll(python_dependencies \cup js.out.value, js.log,
                  _get_git_commit(env, repo), repo)

\* `if requirements_txt: ...`
PythonDependencies(tree, requirements_txt) ==
    IF requirements_txt # None
    THEN _parse_python_dependencies(ReadFile(tree, requirements_txt),
                                    requirements_txt)
    ELSE {}

\* _scan_repo after the three lookups in dependency_files
ScanRepoFiles(tree, env, repo, requirements_txt, package_lock_json, package_json) ==
    IF package_lock_json # None \/ package_json # None
    THEN UpdateWithJs(env, repo, PythonDependencies(tree, requirements_txt),
                      _parse_javascript_dependencies(tree, package_json,
                                                     package_lock_json))
    ELSE StampAll(PythonDependencies(tree, requirements_txt), <<>>,
                  _get_git_commit(env, repo), repo)

_scan_repo(tree, env, repo) ==
    ScanRepoFiles(tree, env, repo,
                  FileOrNone(tree, repo, "requirements.txt"),
                  FileOrNone(tree, repo, "package-lock.json"),
                  FileOrNone(tree, repo, "package.json"))

-----------------------------------------------------------------------------
(* scan / get_dependencies *)

\* self.dependencies is None or a set of records
PyNone == [kind |-> "None"]

PySet(deps) == [kind |-> "set", value |-> deps]

\* what a call did: its outcome, self.dependencies afterwards, whether scan
\* ran and, if it did, the repositories passed to _scan_repo with the outcome
\* of each, the warnings logged and the repositories whose commit was resolved
ScanResult(out, held, scanned, outs, log, git_calls) ==
    [out |-> out, dependencies |-> held, ran |-> TRUE, scanned |-> scanned,
     outs |-> outs, log |-> log, git_calls |-> git_calls]

\* [entry for entry in root.iterdir() if entry.is_dir()]
Directories(tree, listing) == SelectSeq(listing, LAMBDA e : tree[e].is_dir)

\* `if not repo_dependencies: logger.warning(...)`
WarnIfEmpty(repo_dependencies, repo) ==
    IF repo_dependencies = {}
    THEN <<Warning("No dependencies found", <<repo>>)>>
    ELSE <<>>

\* a scan that lacks the check after the loop
AfterLoop_unchecked(acc) == [acc EXCEPT !.out = ReturnedNone]

\* `if not self.dependencies: raise NoDependenciesFoundError`
AfterLoop(acc) ==
    [acc EXCEPT !.out = IF acc.dependencies.value = {}
                        THEN Raised("NoDependenciesFoundError", <<>>)
                        ELSE ReturnedNone]

\* the loop `for repo in repos` from repos[i] on and the check after it;
\* ScanStep is one round of it, r being what _scan_repo did
RECURSIVE ScanLoop(_, _, _, _, _)
ScanStep(tree, env, repos, i, acc, r) ==
    IF r.out.kind = "raise"
    THEN ScanResult(r.out, acc.dependencies,
                    Append(acc.scanned, repos[i]), Append(acc.outs, r.out),
                    acc.log \o r.log, acc.git_calls \o r.git_calls)
    ELSE ScanLoop(tree, env, repos, i + 1,
             ScanResult(acc.out,
                        PySet(acc.dependencies.value \cup r.out.value),
                        Append(acc.scanned, repos[i]), Append(acc.outs, r.out),
                        acc.log \o r.log \o WarnIfEmpty(r.out.value, repos[i]),
                        acc.git_calls \o r.git_calls))

ScanLoop(tree, env, repos, i, acc) ==
    IF i > Len(repos)
    THEN AfterLoop(acc)
    ELSE ScanStep(tree, env, repos, i, acc, _scan_repo(tree, env, repos[i]))

\* a scan that lacks the `if not repos` check
ScanRepos_unchecked(tree, env, repos, held) ==
    ScanLoop(tree, env, repos, 1,
             ScanResult(ReturnedNone, PySet({}), <<>>, <<>>, <<>>, <<>>))

\* scan after the listing of the root, on a scanner whose self.dependencies
\* is `held`
ScanRepos(tree, env, repos, held) ==
    IF repos = <<>>
    THEN ScanResult(Raised("NoRepositoriesFoundError", <<>>), held,
                    <<>>, <<>>, <<>>, <<>>)
    ELSE ScanLoop(tree, env, repos, 1,
                  ScanResult(ReturnedNone, PySet({}), <<>>, <<>>, <<>>, <<>>))

scan(tree, env, listing, held) ==
    ScanRepos(tree, env, Directories(tree, listing), held)

\* a call that returns self.dependencies without running scan
NoScan(held) ==
    [ScanResult(Returned(held), held, <<>>, <<>>, <<>>, <<>>) EXCEPT !.ran = FALSE]

\* `return self.dependencies` after self.scan(), s being what scan did
ReturnAfterScan(s) ==
    IF s.out.kind = "raise" THEN s ELSE [s EXCEPT !.out = Returned(s.dependencies)]

\* a get_dependencies that scans on every call
get_dependencies_rescanning(tree, env, listing, held) ==
    ReturnAfterScan(scan(tree, env, listing, held))

get_dependencies(tree, env, listing, held) ==
    IF held = PyNone
    THEN ReturnAfterScan(scan(tree, env, listing, held))
    ELSE NoScan(held)

-----------------------------------------------------------------------------
(* SBOMWriter *)

\* [f.name for f in fields(DependencyRecord)]
fieldnames == <<"name", "version", "type", "path", "dev", "git_commit">>

\* str(path): the components of the path joined by the separator
PathStr(path) == <<path[1], "/", path[2]>>

\* asdict(dep), the path as text
_serialize_dependency(dep) == [dep EXCEPT !.path = PathStr(dep.path)]

\* str(True), str(False)
BoolText(b) == IF b THEN <<"T", "r", "u", "e">> ELSE <<"F", "a", "l", "s", "e">>

\* a writer that puts str(value) in the cell for None as well
CsvCell_str(field, value) ==
    IF field = "dev" THEN BoolText(value)
    ELSE IF field = "type" THEN <<value>>
    ELSE IF field = "path" THEN value
    ELSE IF value = None THEN <<"N", "o", "n", "e">>
    ELSE value

\* the text csv.DictWriter puts in the cell of a field: None gives the empty
\* text, every other value its str()
CsvCell(field, value) ==
    IF field = "dev" THEN BoolText(value)
    ELSE IF field = "type" THEN <<value>>
    ELSE IF field = "path" THEN value
    ELSE IF value = None THEN <<>>
    ELSE value

\* writer.writerow(row): the cells in the order of fieldnames
CsvRow(data) ==
    [i \in DOMAIN fieldnames |-> CsvCell(fieldnames[i], data[fieldnames[i]])]

\* JSON values as json.dump writes them
JNull == [t |-> "null"]

JString(text) == [t |-> "string", v |-> text]

JBool(b) == [t |-> "bool", v |-> b]

JsonValue(field, value) ==
    IF field = "dev" THEN JBool(value)
    ELSE IF field = "type" THEN JString(<<value>>)
    ELSE IF field = "path" THEN JString(value)
    ELSE IF value = None THEN JNull
    ELSE JString(value)

\* the JSON object of a serialized record
JsonObject(data) ==
    [f \in {fieldnames[i] : i \in DOMAIN fieldnames} |-> JsonValue(f, data[f])]

\* the code point of a character
Ord == ("a" :> 97) @@ ("b" :> 98) @@ ("c" :> 99)

\* s < t on str: the first differing character decides, a proper prefix is
\* smaller
RECURSIVE StrLessFrom(_, _, _)
StrLessFrom(s, t, i) ==
    IF i > Len(t) THEN FALSE
    ELSE IF i > Len(s) THEN TRUE
    ELSE IF s[i] # t[i] THEN Ord[s[i]] < Ord[t[i]]
    ELSE StrLessFrom(s, t, i + 1)

StrLess(s, t) == StrLessFrom(s, t, 1)

InsertAt(seq, d, k) == SubSeq(seq, 1, k) \o <<d>> \o SubSeq(seq, k + 1, Len(seq))

\* sorted() is stable: a record goes behind every record already placed whose
\* name is not greater
InsertByName(seq, d) ==
    InsertAt(seq, d,
             Cardinality({i \in DOMAIN seq : ~StrLess(d.name, seq[i].name)}))

\* sorted(dependencies, key=lambda d: d.name), order being the order in which
\* the iteration over dependencies gives the records
RECURSIVE SortedUpTo(_, _)
SortedUpTo(order, n) ==
    IF n = 0 THEN <<>> ELSE InsertByName(SortedUpTo(order, n - 1), order[n])

SortedByName(order) == SortedUpTo(order, Len(order))

\* the orders in which the iteration over a set may give its elements
Orders(set) ==
    {o \in [1..Cardinality(set) -> set] : \A i, j \in DOMAIN o : i # j => o[i] # o[j]}

\* what a write did: its outcome and the output directory afterwards
Wrote(out, dir) == [out |-> out, cwd |-> dir]

\* filepath.open("w") and the writing of the content
OpenAndWrite(unwritable, dir, filename, content) ==
    IF filename \in unwritable
    THEN Wrote(Raised("OSError", <<filename>>), dir)
    ELSE Wrote(ReturnedNone, (filename :> content) @@ dir)

CsvFile(deps) ==
    [header |-> fieldnames,
     rows |-> [i \in DOMAIN deps |-> CsvRow(_serialize_dependency(deps[i]))]]

JsonFile(deps) == [i \in DOMAIN deps |-> JsonObject(_serialize_dependency(deps[i]))]

write_csv(order, unwritable, dir) ==
    OpenAndWrite(unwritable, dir, "sbom.csv", CsvFile(SortedByName(order)))

write_json(order, unwritable, dir) ==
    OpenAndWrite(unwritable, dir, "sbom.json", JsonFile(SortedByName(order)))

\* write_json after write_csv, csv being what write_csv did
ThenWriteJson(order, unwritable, csv) ==
    IF csv.out.kind = "raise" THEN csv ELSE write_json(order, unwritable, csv.cwd)

write_sbom(order, unwritable, dir) ==
    ThenWriteJson(order, unwritable, write_csv(order, unwritable, dir))

-----------------------------------------------------------------------------
(* cli.main *)

\* what main did: the value it returned, the records it got from the scanner
\* and the output directory afterwards
Ran(code, deps, dir) == [exit_code |-> Returned(code), deps |-> deps, cwd |-> dir]

\* `return 0` after write_sbom, `return 1` from the except clause
AfterWrite(deps, w) == Ran(IF w.out.kind = "raise" THEN 1 ELSE 0, deps, w.cwd)

\* main after scanner.get_dependencies(), got being what that call did and
\* order the order in which the set it returned is iterated
AfterScan(got, order, unwritable, dir) ==
    IF got.out.kind = "raise"
    THEN Ran(1, {}, dir)
    ELSE AfterWrite(got.out.value.value, write_sbom(order, unwritable, dir))

\* the iteration orders of what get_dependencies returned; one (unused) order
\* when it raised
OrdersOf(got) ==
    IF got.out.kind = "raise" THEN {<<>>} ELSE Orders(got.out.value.value)

-----------------------------------------------------------------------------
(* The directory tree *)

Repos == {"r1", "r2"}

Dir(files) == [is_dir |-> TRUE, files |-> files]

\* a non-directory entry of the root
File == [is_dir |-> FALSE, files |-> <<>>]

\* contents of requirements.txt: empty, and one line
ReqChoices == {<<>>, <<"a">>}

\* contents of package.json: with entries, without `dependencies`, and with
\* a `dependencies` that is no map
PkgOk ==
    ("dependencies" :> JObject(<<"a">> :> <<"1">>))
    @@ ("devDependencies" :> JObject(<<"b">> :> <<"2">>))

PkgNoDependencies == "devDependencies" :> JObject(<<"b">> :> <<"2">>)

PkgNotMap ==
    ("dependencies" :> JArray)
    @@ ("devDependencies" :> JObject(<<"b">> :> <<"2">>))

PkgChoices == {PkgOk, PkgNoDependencies, PkgNotMap}

\* contents of package-lock.json, by lockfileVersion
Lock(version, packages) ==
    ("lockfileVersion" :> version) @@ ("packages" :> packages)

OldLock(version) == "lockfileVersion" :> version

RootOnly == <<>> :> ("version" :> <<"0">>)

LockChoices ==
    {OldLock(1), OldLock(2), OldLock(4),
     Lock(3, RootOnly @@ ((node_modules \o <<"c">>) :> ("version" :> <<"3">>)))}

\* a file of a directory, or nothing when present is FALSE
Entry(present, name, content) == IF present THEN name :> content ELSE <<>>

RepoDirs ==
    {Entry(hasReq, "requirements.txt", req)
        @@ Entry(hasPkg, "package.json", pkg)
        @@ Entry(hasLock, "package-lock.json", lock)
     : hasReq \in BOOLEAN, req \in ReqChoices,
       hasPkg \in BOOLEAN, pkg \in PkgChoices,
       hasLock \in BOOLEAN, lock \in LockChoices}

\* the root: each repository there or not, and maybe a file named like a
\* manifest beside them
Trees ==
    {Entry(has1, "r1", Dir(d1)) @@ Entry(has2, "r2", Dir(d2))
        @@ Entry(hasFile, "requirements.txt", File)
     : has1 \in BOOLEAN, d1 \in RepoDirs, has2 \in BOOLEAN, d2 \in RepoDirs,
       hasFile \in BOOLEAN}

\* the commit `git log` prints in a repository
CommitOf(repo) == IF repo = "r1" THEN <<"c", "1">> ELSE <<"c", "2">>

\* git is not installed; or every repository has a commit; or r1 has one and
\* `git log` fails in the others
GitEnvs ==
    {[r \in Repos |-> GitFails("FileNotFoundError")]}
    \cup {[r \in Repos |-> IF r \in committed
                           THEN GitOutput(CommitOf(r) \o <<"\n">>)
                           ELSE GitFails("CalledProcessError")]
          : committed \in {Repos, {"r1"}}}

\* the orders in which iterdir may list the entries of the root
Listings(tree) ==
    {l \in [1..Cardinality(DOMAIN tree) -> DOMAIN tree] :
        \A i, j \in DOMAIN l : i # j => l[i] # l[j]}

-----------------------------------------------------------------------------
(* Spec: one DependencyScanner on a tree that does not change *)

\* __init__
ScannerInit ==
    /\ dependencies = PyNone
    /\ result = Pending
    /\ firstReturn = Pending
    /\ changes = 0

ScanIdle ==
    /\ fs = <<>>
    /\ git = <<>>
    /\ ScannerInit

ReqIdle ==
    /\ reqText = <<>>
    /\ reqOut = Pending

LockIdle ==
    /\ lockData = <<>>
    /\ lockOut = Pending

PkgIdle ==
    /\ pkgData = <<>>
    /\ pkgOut = Pending

OutIdle ==
    /\ corpus = {}
    /\ disk = {}
    /\ cwd = <<>>
    /\ earlier = <<>>
    /\ exit_code = Pending

Init ==
    /\ fs \in Trees
    /\ git \in GitEnvs
    /\ ScannerInit
    /\ ReqIdle
    /\ LockIdle
    /\ PkgIdle
    /\ OutIdle

\* a caller calls scanner.get_dependencies(); `at` is the number of changes
\* the tree had seen by then
GetDependencies ==
    \E listing \in Listings(fs) :
        \E did \in {get_dependencies(fs, git, listing, dependencies)} :
            /\ dependencies' = did.dependencies
            /\ result' = [did |-> did, at |-> changes]
            /\ firstReturn' = IF firstReturn = Pending /\ did.out.kind = "return"
                              THEN [value |-> did.out.value, at |-> changes]
                              ELSE firstReturn
            /\ UNCHANGED <<fs, git, changes, reqVars, lockVars, pkgVars, outVars>>

Next == GetDependencies

Spec == Init /\ [][Next]_vars

-----------------------------------------------------------------------------
(* SpecLife: a scanner used through get_dependencies while the tree changes *)

\* the repositories the changing tree is made of: no manifest, one manifest
\* of each kind, and a lockfile of version 1 with nothing beside it
LifeDirs ==
    {<<>>,
     "requirements.txt" :> <<"a">>,
     "package.json" :> PkgOk,
     "package-lock.json" :> OldLock(1)}

LifeTrees ==
    {Entry(has1, "r1", Dir(d1)) @@ Entry(has2, "r2", Dir(d2))
     : has1 \in BOOLEAN, d1 \in LifeDirs, has2 \in BOOLEAN, d2 \in LifeDirs}

LifeInit ==
    /\ fs \in LifeTrees
    /\ git \in GitEnvs
    /\ ScannerInit
    /\ ReqIdle
    /\ LockIdle
    /\ PkgIdle
    /\ OutIdle

\* somebody creates the repository or replaces its content
WriteRepo ==
    \E repo \in Repos, d \in LifeDirs :
        /\ changes < MaxChanges
        /\ repo \in DOMAIN fs => fs[repo] # Dir(d)
        /\ fs' = (repo :> Dir(d)) @@ fs
        /\ changes' = changes + 1
        /\ UNCHANGED <<git, dependencies, result, firstReturn, reqVars, lockVars, pkgVars, outVars>>

\* somebody removes the repository
RemoveRepo ==
    \E repo \in DOMAIN fs :
        /\ changes < MaxChanges
        /\ fs' = [e \in DOMAIN fs \ {repo} |-> fs[e]]
        /\ changes' = changes + 1
        /\ UNCHANGED <<git, dependencies, result, firstReturn, reqVars, lockVars, pkgVars, outVars>>

LifeNext == GetDependencies \/ WriteRepo \/ RemoveRepo

SpecLife == LifeInit /\ [][LifeNext]_vars

-----------------------------------------------------------------------------
(* SpecReq: the requirements.txt parser applied to every bounded content *)

Alphabet == {"a", "b", " ", "\n", "#", "=", ">", "<", "!", "~"}

Texts == UNION {[1..n -> Alphabet] : n \in 0..MaxLen}

ReqPath == <<"r1", "requirements.txt">>

ReqInit ==
    /\ reqText \in Texts
    /\ reqOut = Pending
    /\ ScanIdle
    /\ LockIdle
    /\ PkgIdle
    /\ OutIdle

ParseRequirements ==
    /\ reqOut = Pending
    /\ reqOut' = Returned(_parse_python_dependencies(reqText, ReqPath))
    /\ UNCHANGED <<reqText, scanVars, lockVars, pkgVars, outVars>>

ReqNext == ParseRequirements

SpecReq == ReqInit /\ [][ReqNext]_vars

-----------------------------------------------------------------------------
(* SpecLock: the package-lock.json parser applied to bounded lockfiles *)

\* keys of the `packages` map other than "": a workspace path, and packages
\* installed at the top, nested in another, and under a workspace
PackageKeys ==
    {prefix \o name :
        prefix \in {<<>>, node_modules, node_modules \o <<"a", "/">> \o node_modules,
                    <<"b", "/">> \o node_modules},
        name \in {<<"a">>, <<"b">>}} \ {<<"a">>}

\* entries of the map: `version` there or not, `dev` true, false or not there
PackageInfos ==
    {Entry(hasVersion, "version", <<"1">>) @@ Entry(hasDev, "dev", dev)
     : hasVersion \in BOOLEAN, hasDev \in BOOLEAN, dev \in BOOLEAN}

PackageMaps ==
    UNION {[keys -> PackageInfos] :
              keys \in {K \in SUBSET PackageKeys : Cardinality(K) <= MaxPackages}}

\* lockfiles of version 3, with and without the "" entry, and of other versions
LockFiles ==
    {Lock(3, Entry(hasRoot, <<>>, "version" :> <<"0">>) @@ packages)
     : hasRoot \in BOOLEAN, packages \in PackageMaps}
    \cup {OldLock(1), OldLock(2), OldLock(4)}

LockFilePath == <<"r1", "package-lock.json">>

LockInit ==
    /\ lockData \in LockFiles
    /\ lockOut = Pending
    /\ ScanIdle
    /\ ReqIdle
    /\ PkgIdle
    /\ OutIdle

ParseLockfile ==
    /\ lockOut = Pending
    /\ lockOut' = _parse_package_lock_json(
                      "r1" :> Dir("package-lock.json" :> lockData), LockFilePath)
    /\ UNCHANGED <<lockData, scanVars, reqVars, pkgVars, outVars>>

LockNext == ParseLockfile

SpecLock == LockInit /\ [][LockNext]_vars

-----------------------------------------------------------------------------
(* SpecPkg: the package.json parser applied to bounded package objects *)

\* name -> declared range maps over two package names
RangeMaps ==
    UNION {[names -> {<<"^", "1">>, <<"2">>}] : names \in SUBSET {<<"a">>, <<"b">>}}

\* what a key of package.json may hold: a map, or a value that is none
KeyValues == {JObject(m) : m \in RangeMaps} \cup {JArray}

\* package objects: each of the two keys there or not
Packages ==
    {Entry(hasDeps, "dependencies", deps) @@ Entry(hasDev, "devDependencies", dev)
     : hasDeps \in BOOLEAN, deps \in KeyValues,
       hasDev \in BOOLEAN, dev \in KeyValues}

PkgFilePath == <<"r1", "package.json">>

PkgInit ==
    /\ pkgData \in Packages
    /\ pkgOut = Pending
    /\ ScanIdle
    /\ ReqIdle
    /\ LockIdle
    /\ OutIdle

ParsePackageJson ==
    /\ pkgOut = Pending
    /\ pkgOut' = _parse_package_json(
                     "r1" :> Dir("package.json" :> pkgData), PkgFilePath)
    /\ UNCHANGED <<pkgData, scanVars, reqVars, lockVars, outVars>>

PkgNext == ParsePackageJson

SpecPkg == PkgInit /\ [][PkgNext]_vars

-----------------------------------------------------------------------------
(* SpecCli: one run of main on a tree, into an output directory in which *)
(* some of the two files may be impossible to open for writing           *)

OutputFiles == {"sbom.csv", "sbom.json"}

CliInit ==
    /\ fs \in LifeTrees
    /\ git \in GitEnvs
    /\ ScannerInit
    /\ ReqIdle
    /\ LockIdle
    /\ PkgIdle
    /\ corpus = {}
    /\ disk \in SUBSET OutputFiles
    /\ cwd = <<>>
    /\ earlier = <<>>
    /\ exit_code = Pending

\* main(args), on a new DependencyScanner and a new SBOMWriter
Main ==
    /\ exit_code = Pending
    /\ \E listing \in Listings(fs) :
           \E got \in {get_dependencies(fs, git, listing, PyNone)} :
               \E order \in OrdersOf(got) :
                   \E ran \in {AfterScan(got, order, disk, cwd)} :
                       /\ exit_code' = ran.exit_code
                       /\ corpus' = ran.deps
                       /\ cwd' = ran.cwd
                       /\ dependencies' = got.dependencies
                       /\ result' = [did |-> got, at |-> changes]
    /\ UNCHANGED <<fs, git, firstReturn, changes, disk, earlier,
                   reqVars, lockVars, pkgVars>>

CliNext == Main

SpecCli == CliInit /\ [][CliNext]_vars

-----------------------------------------------------------------------------
(* SpecWrite: write_sbom called again and again on one bounded set of records *)

\* records as the scanner makes them: of a requirements.txt in r1 and of a
\* package.json in r2, with and without version and commit
Records ==
    {[name |-> name, version |-> version, type |-> kind.type, path |-> kind.path,
      dev |-> kind.dev, git_commit |-> git_commit]
     : name \in {<<"a">>, <<"a", "b">>, <<"b">>},
       version \in {None, <<"1">>},
       kind \in {[type |-> "pip", path |-> <<"r1", "requirements.txt">>, dev |-> FALSE],
                 [type |-> "npm", path |-> <<"r2", "package.json">>, dev |-> FALSE],
                 [type |-> "npm", path |-> <<"r2", "package.json">>, dev |-> TRUE]},
       git_commit \in {None, <<"c", "1">>}}

\* the sets of at most n of the records
RECURSIVE SetsUpTo(_)
SetsUpTo(n) ==
    IF n = 0 THEN {{}}
    ELSE {c \cup extra : c \in SetsUpTo(n - 1), extra \in {{}} \cup {{d} : d \in Records}}

Corpora == SetsUpTo(MaxRecords)

WriteInit ==
    /\ corpus \in Corpora
    /\ disk = {}
    /\ cwd = <<>>
    /\ earlier = <<>>
    /\ exit_code = Pending
    /\ ScanIdle
    /\ ReqIdle
    /\ LockIdle
    /\ PkgIdle

\* writer.write_sbom(corpus), in a process that iterates the set in `order`
WriteSbom ==
    \E order \in Orders(corpus) :
        \E w \in {write_sbom(order, disk, cwd)} :
            /\ cwd' = w.cwd
            /\ earlier' = cwd
            /\ UNCHANGED <<corpus, disk, exit_code, scanVars, reqVars, lockVars,
                           pkgVars>>

WriteNext == WriteSbom

SpecWrite == WriteInit /\ [][WriteNext]_vars

-----------------------------------------------------------------------------
(* Properties of get_dependencies and scan *)

\* the subdirectories of the root
Dirs(tree) == {e \in DOMAIN tree : tree[e].is_dir}

HasFile(tree, repo, name) == name \in DOMAIN tree[repo].files

\* the last call ran scan
Scanned == result # Pending /\ result.did.ran

\* C1: once get_dependencies has returned a corpus, every later call of
\* get_dependencies returns that same corpus and does not run scan, whatever
\* happened to the directory tree in between.  (Every step that is no change
\* of the tree is a call of get_dependencies.)
C1_Idempotent ==
    [][(firstReturn # Pending /\ changes' = changes) =>
            /\ result'.did.out = Returned(firstReturn.value)
            /\ ~result'.did.ran
            /\ dependencies' = dependencies
            /\ firstReturn' = firstReturn]_vars

\* a call returned the first corpus without scanning, after a change of the
\* tree that makes a scan of the tree as it is now end otherwise
C1_Witness ==
    /\ firstReturn # Pending
    /\ result.at > firstReturn.at
    /\ ~result.did.ran
    /\ result.did.out = Returned(firstReturn.value)
    /\ \A listing \in Listings(fs) :
           get_dependencies(fs, git, listing, PyNone).out # result.did.out

\* every repository of the tree yields the empty record set
AllReposEmpty ==
    \A repo \in Dirs(fs) : _scan_repo(fs, git, repo).out = Returned({})

\* C2: a scan of a root with at least one subdirectory whose repositories all
\* yield an empty record set raises NoDependenciesFoundError after it has
\* scanned every repository; and no scan ends normally with an empty corpus.
C2_NoDependencies ==
    Scanned =>
        /\ (Dirs(fs) # {} /\ AllReposEmpty) =>
              /\ result.did.out = Raised("NoDependenciesFoundError", <<>>)
              /\ Len(result.did.scanned) = Cardinality(Dirs(fs))
              /\ {result.did.scanned[k] : k \in DOMAIN result.did.scanned} = Dirs(fs)
        /\ result.did.out.kind = "return" => result.did.out.value.value # {}

\* two repositories, one with an empty requirements.txt and one with no
\* manifest at all, were both scanned and the scan raised
C2_Witness ==
    /\ Scanned
    /\ Dirs(fs) = {"r1", "r2"}
    /\ AllReposEmpty
    /\ HasFile(fs, "r1", "requirements.txt")
    /\ DOMAIN fs["r2"].files = {}
    /\ Len(result.did.scanned) = 2
    /\ result.did.out = Raised("NoDependenciesFoundError", <<>>)

\* C3: a scan of a root without subdirectories raises NoRepositoriesFoundError
\* and scans no repository (no _scan_repo, no commit resolved, and
\* self.dependencies left as it was), also when the root holds files.
C3_NoRepositories ==
    (Scanned /\ Dirs(fs) = {}) =>
        /\ result.did.out = Raised("NoRepositoriesFoundError", <<>>)
        /\ result.did.scanned = <<>>
        /\ result.did.git_calls = <<>>
        /\ result.did.log = <<>>
        /\ dependencies = PyNone

\* the root holds a file named requirements.txt and nothing else
C3_Witness ==
    /\ Scanned
    /\ DOMAIN fs = {"requirements.txt"}
    /\ ~fs["requirements.txt"].is_dir
    /\ result.did.out = Raised("NoRepositoriesFoundError", <<>>)

-----------------------------------------------------------------------------
(* Properties of the dispatch between package-lock.json and package.json *)

LockPath(repo) == <<repo, "package-lock.json">>

PackagePath(repo) == <<repo, "package.json">>

LockfileVersion(tree, repo) == ReadFile(tree, LockPath(repo))["lockfileVersion"]

\* the repository has a lockfile of one of these versions
HasLockOf(tree, repo, versions) ==
    /\ HasFile(tree, repo, "package-lock.json")
    /\ LockfileVersion(tree, repo) \in versions

\* the npm records of a repository scan that returned, without their commit
NodeRecords(out) == Stamp({d \in out.value : d.type = "npm"}, None)

\* the fallback warning was logged for the lockfile of the repository
WarnedOldLock(log, repo) ==
    \E i \in DOMAIN log :
        log[i] = Warning("unsupported lockfileVersion", LockPath(repo))

\* C4: the scan of a repository that has a package-lock.json of version 1 or 2
\* and no package.json fails with the error the lockfile parser raised
\* (NotImplementedError, carrying the version), and that error is what the
\* whole scan fails with.
C4_UnsupportedPropagates ==
    Scanned =>
        \A k \in DOMAIN result.did.scanned :
            (/\ HasLockOf(fs, result.did.scanned[k], {1, 2})
             /\ ~HasFile(fs, result.did.scanned[k], "package.json")) =>
                /\ result.did.outs[k] =
                       Raised("NotImplementedError",
                              <<LockfileVersion(fs, result.did.scanned[k])>>)
                /\ result.did.out = result.did.outs[k]

\* the repository has both files, the lockfile being of one of these versions
HasBoth(tree, repo, versions) ==
    /\ HasLockOf(tree, repo, versions)
    /\ HasFile(tree, repo, "package.json")

\* the lockfile is of version 3: its records and nothing of package.json
LockOnly(tree, repo, out, log) ==
    /\ out.kind = "return"
    /\ NodeRecords(out) =
           LockRecords(ReadFile(tree, LockPath(repo))["packages"], LockPath(repo))
    /\ ~WarnedOldLock(log, repo)

\* C5 as stated: in a repository with both files the lockfile is tried first;
\* with a lockfile of version 3 the node records are the lockfile's records,
\* and with a lockfile of version 1 or 2 the scan of the repository does not
\* fail, a warning is logged and the node records are those of package.json.
C5_FallbackNeverFails ==
    Scanned =>
        \A k \in DOMAIN result.did.scanned :
            /\ HasBoth(fs, result.did.scanned[k], {3}) =>
                   LockOnly(fs, result.did.scanned[k], result.did.outs[k],
                            result.did.log)
            /\ HasBoth(fs, result.did.scanned[k], {1, 2}) =>
                   /\ result.did.outs[k].kind = "return"
                   /\ WarnedOldLock(result.did.log, result.did.scanned[k])
                   /\ NodeRecords(result.did.outs[k]) =
                          _parse_package_json(fs,
                              PackagePath(result.did.scanned[k])).value

\* the lockfile is of version 1 or 2: a warning, and what package.json gives,
\* pkg being the outcome of its parser
PackageInstead(repo, out, log, pkg) ==
    /\ WarnedOldLock(log, repo)
    /\ pkg.kind = "raise" => out = pkg
    /\ pkg.kind = "return" => out.kind = "return" /\ NodeRecords(out) = pkg.value

\* C5: in a repository with both files the lockfile is tried first; with a
\* lockfile of version 3 the node records are the lockfile's records and
\* package.json is not read; with a lockfile of version 1 or 2 a warning is
\* logged and package.json is parsed in its place: the node records are those
\* of package.json, and the scan fails only if the parser of package.json does,
\* with that parser's error.
C5_LockFirst ==
    Scanned =>
        \A k \in DOMAIN result.did.scanned :
            /\ HasBoth(fs, result.did.scanned[k], {3}) =>
                   LockOnly(fs, result.did.scanned[k], result.did.outs[k],
                            result.did.log)
            /\ HasBoth(fs, result.did.scanned[k], {1, 2}) =>
                   PackageInstead(result.did.scanned[k], result.did.outs[k],
                       result.did.log,
                       _parse_package_json(fs, PackagePath(result.did.scanned[k])))

\* a scan returned after r1, with a lockfile of version 3, gave the record of
\* the lockfile, and r2, with a lockfile of version 1 or 2, the two records of
\* its package.json
C5_Witness ==
    /\ Scanned
    /\ result.did.out.kind = "return"
    /\ Dirs(fs) = {"r1", "r2"}
    /\ HasBoth(fs, "r1", {3})
    /\ HasBoth(fs, "r2", {1, 2})
    /\ WarnedOldLock(result.did.log, "r2")
    /\ {d.name : d \in {e \in result.did.out.value.value : e.path = LockPath("r1")}}
           = {<<"c">>}
    /\ {d.name : d \in {e \in result.did.out.value.value : e.path = PackagePath("r2")}}
           = {<<"a">>, <<"b">>}
    /\ \A d \in result.did.out.value.value :
           d.type = "npm" => d.path \in {LockPath("r1"), PackagePath("r2")}

\* C6: a repository whose package-lock.json has a lockfileVersion outside
\* {1, 2, 3} makes its scan fail with the ValueError of the lockfile parser,
\* package.json or not; no repository is scanned after it and the whole scan
\* fails with that error; so no scan of a tree with such a repository returns.
C6_Unrecognized ==
    Scanned =>
        /\ \A k \in DOMAIN result.did.scanned :
               (/\ HasFile(fs, result.did.scanned[k], "package-lock.json")
                /\ LockfileVersion(fs, result.did.scanned[k]) \notin {1, 2, 3}) =>
                   /\ result.did.outs[k] =
                          Raised("ValueError",
                                 <<LockfileVersion(fs, result.did.scanned[k])>>)
                   /\ result.did.out = result.did.outs[k]
                   /\ k = Len(result.did.scanned)
                   /\ ~WarnedOldLock(result.did.log, result.did.scanned[k])
        /\ (\E repo \in Dirs(fs) :
               /\ HasFile(fs, repo, "package-lock.json")
               /\ LockfileVersion(fs, repo) \notin {1, 2, 3}) =>
               result.did.out.kind = "raise"

\* of two repositories the first scanned has a lockfile of version 4 beside a
\* well-formed package.json; the scan stopped there with the ValueError
C6_Witness ==
    /\ Scanned
    /\ Cardinality(Dirs(fs)) = 2
    /\ Len(result.did.scanned) = 1
    /\ HasFile(fs, result.did.scanned[1], "package-lock.json")
    /\ LockfileVersion(fs, result.did.scanned[1]) = 4
    /\ HasFile(fs, result.did.scanned[1], "package.json")
    /\ ReadFile(fs, PackagePath(result.did.scanned[1])) = PkgOk
    /\ result.did.out = Raised("ValueError", <<4>>)

\* package.json is what the scan of the repository parses: there is one, and
\* no lockfile, or a lockfile of version 1 or 2
ParsesPackageJson(tree, repo) ==
    /\ HasFile(tree, repo, "package.json")
    /\ HasFile(tree, repo, "package-lock.json") =>
           LockfileVersion(tree, repo) \in {1, 2}

\* the error of the parser of package.json on an object without a usable
\* `dependencies`: KeyError when the key is absent, AttributeError when its
\* value is no map
MalformedManifestError(package) ==
    IF "dependencies" \notin DOMAIN package
    THEN Raised("KeyError", <<>>)
    ELSE Raised("AttributeError", <<>>)

\* `dependencies` is absent or is no map
Malformed(package) ==
    \/ "dependencies" \notin DOMAIN package
    \/ package["dependencies"].t # "object"

\* C7: when the package.json a repository scan parses has no `dependencies`
\* key or one that is no map, with a devDependencies map or not, the scan of
\* the repository fails with the parser's error unchanged, no repository is
\* scanned after it, and the whole scan fails with that error.
C7_MalformedManifest ==
    Scanned =>
        \A k \in DOMAIN result.did.scanned :
            (/\ ParsesPackageJson(fs, result.did.scanned[k])
             /\ Malformed(ReadFile(fs, PackagePath(result.did.scanned[k])))) =>
                /\ result.did.outs[k] =
                       MalformedManifestError(
                           ReadFile(fs, PackagePath(result.did.scanned[k])))
                /\ result.did.out = result.did.outs[k]
                /\ k = Len(result.did.scanned)

\* of two repositories the first scanned has a package.json with a
\* devDependencies map and no `dependencies`; the scan stopped there
C7_Witness ==
    /\ Scanned
    /\ Cardinality(Dirs(fs)) = 2
    /\ Len(result.did.scanned) = 1
    /\ ParsesPackageJson(fs, result.did.scanned[1])
    /\ ReadFile(fs, PackagePath(result.did.scanned[1])) = PkgNoDependencies
    /\ result.did.out = Raised("KeyError", <<>>)

-----------------------------------------------------------------------------
(* Properties of the requirements.txt parser *)

\* the lines of the text once the comment is cut and the whitespace trimmed,
\* the empty ones left out
RemainingLines(text) ==
    {Strip(Split(FileLines(text)[i], <<"#">>, 1)[1]) : i \in DOMAIN FileLines(text)}
        \ {<<>>}

\* the positions of the line at which one of the seven operators starts
OperatorPositions(line) ==
    {i \in 1..Len(line) : \E k \in DOMAIN operators : OccursAt(line, operators[k], i)}

\* the record of name<op><expr>, the operator starting at position p
RecordSplitAt(line, p) ==
    DependencyRecord(Strip(SubSeq(line, 1, p - 1)), SubSeq(line, p, Len(line)),
                     "pip", ReqPath, FALSE)

\* a package name: letters, at least one
IsName(s) == s # <<>> /\ \A i \in DOMAIN s : s[i] \in {"a", "b"}

\* C8: a line name<op><expr>, <op> being the operator that occurs first in
\* the line and <expr> any text, is parsed into the record whose name is the
\* trimmed text before <op> and whose version is <op> followed by <expr>.
C8_FirstOperator ==
    reqOut # Pending =>
        \A line \in RemainingLines(reqText) :
            (/\ OperatorPositions(line) # {}
             /\ IsName(Strip(SubSeq(line, 1, Least(OperatorPositions(line)) - 1)))) =>
                RecordSplitAt(line, Least(OperatorPositions(line))) \in reqOut.value

\* d is a record the line may give: the line itself without a version when it
\* holds no operator, and otherwise the line cut in two, the name trimmed
RecordOf(d, line) ==
    IF OperatorPositions(line) = {}
    THEN d.name = line /\ d.version = None
    ELSE /\ d.version # None
         /\ \E i \in 0..Len(line) :
                /\ d.name = Strip(SubSeq(line, 1, i))
                /\ d.version = SubSeq(line, i + 1, Len(line))

\* C9: the parser returns one record per line that is not empty once its
\* comment is cut and it is trimmed (equal records being one), and none for
\* the other lines; every record is a pip record with dev false and no
\* commit; the record of a line without operator has the line as its name
\* and no version.
C9_Lines ==
    reqOut # Pending =>
        /\ reqOut.kind = "return"
        /\ \A d \in reqOut.value :
               /\ d.type = "pip" /\ d.dev = FALSE
               /\ d.path = ReqPath /\ d.git_commit = None
               /\ \E line \in RemainingLines(reqText) : RecordOf(d, line)
        /\ \A line \in RemainingLines(reqText) :
               \E d \in reqOut.value : RecordOf(d, line)
        /\ Cardinality(reqOut.value) <= Cardinality(RemainingLines(reqText))

\* the text "a", newline, "#b" gave the one record of the bare name a
C9_Witness ==
    /\ reqText = <<"a", "\n", "#", "b">>
    /\ reqOut = Returned({DependencyRecord(<<"a">>, None, "pip", ReqPath, FALSE)})

-----------------------------------------------------------------------------
(* Properties of the package-lock.json parser *)

\* name is what follows the last "node_modules/" of the key: the whole key
\* when it holds none
FollowsLastNodeModules(name, key) ==
    /\ ~Contains(name, node_modules)
    /\ \E i \in 0..Len(key) :
           /\ name = SubSeq(key, i + 1, Len(key))
           /\ i = 0 \/ (/\ i >= Len(node_modules)
                        /\ SubSeq(key, i - Len(node_modules) + 1, i) = node_modules)

\* d is the record of the entry of the map at the key
RecordOfEntry(d, key, info) ==
    /\ FollowsLastNodeModules(d.name, key)
    /\ d.version = IF "version" \in DOMAIN info THEN info["version"] ELSE None
    /\ d.dev = IF "dev" \in DOMAIN info THEN info["dev"] ELSE FALSE
    /\ d.type = "npm"
    /\ d.path = LockFilePath
    /\ d.git_commit = None

\* the records are those of the entries of the map, the "" entry left out
RecordsOfPackages(records, packages) ==
    /\ \A key \in DOMAIN packages \ {<<>>} :
           \E d \in records : RecordOfEntry(d, key, packages[key])
    /\ \A d \in records :
           \E key \in DOMAIN packages \ {<<>>} : RecordOfEntry(d, key, packages[key])
    /\ Cardinality(records) <= Cardinality(DOMAIN packages \ {<<>>})

\* C10: parsing a package-lock.json of version 3 returns one record per key
\* of `packages` other than "" (equal records being one): its name is what
\* follows the last "node_modules/" of the key, its version the `version` of
\* the entry or None, its dev flag the `dev` of the entry or false.
C10_LockRecords ==
    (lockOut # Pending /\ lockData["lockfileVersion"] = 3) =>
        /\ lockOut.kind = "return"
        /\ RecordsOfPackages(lockOut.value, lockData["packages"])

\* a lockfile with the "" entry, node_modules/b with dev true, and
\* node_modules/a/node_modules/b without `version` gave two records named b
C10_Witness ==
    /\ lockOut # Pending
    /\ lockData["lockfileVersion"] = 3
    /\ DOMAIN lockData["packages"] =
           {<<>>, node_modules \o <<"b">>,
            node_modules \o <<"a", "/">> \o node_modules \o <<"b">>}
    /\ lockOut = Returned(
           {DependencyRecord(<<"b">>, <<"1">>, "npm", LockFilePath, TRUE),
            DependencyRecord(<<"b">>, None, "npm", LockFilePath, FALSE)})

-----------------------------------------------------------------------------
(* Properties of the package.json parser *)

\* the package object has a `dependencies` map, and a devDependencies map or
\* no devDependencies
WellFormed(package) ==
    /\ "dependencies" \in DOMAIN package
    /\ package["dependencies"].t = "object"
    /\ "devDependencies" \in DOMAIN package =>
           package["devDependencies"].t = "object"

\* the entries of the map at the key, none when the key is absent
EntriesOf(package, key) ==
    IF key \in DOMAIN package THEN package[key].v ELSE <<>>

\* the npm record of an entry of one of the two maps
EntryRecord(name, range, dev) ==
    [name |-> name, version |-> range, type |-> "npm", path |-> PkgFilePath,
     dev |-> dev, git_commit |-> None]

\* the records are those of the entries of the two maps
RecordsOfMaps(records, deps, dev_deps) ==
    /\ records =
           {EntryRecord(name, deps[name], FALSE) : name \in DOMAIN deps}
           \cup {EntryRecord(name, dev_deps[name], TRUE) : name \in DOMAIN dev_deps}
    /\ Cardinality(records) =
           Cardinality(DOMAIN deps) + Cardinality(DOMAIN dev_deps)

\* C11: parsing a package.json with a `dependencies` map returns one npm
\* record with dev false per entry of `dependencies` and one with dev true
\* per entry of `devDependencies` (none when that key is absent), the version
\* being the declared range as written; a name in both maps gives two records.
C11_PackageRecords ==
    (pkgOut # Pending /\ WellFormed(pkgData)) =>
        /\ pkgOut.kind = "return"
        /\ RecordsOfMaps(pkgOut.value, EntriesOf(pkgData, "dependencies"),
                         EntriesOf(pkgData, "devDependencies"))

\* the name a is in both maps with different ranges, and gave two records
C11_Witness ==
    /\ pkgOut # Pending
    /\ pkgData = ("dependencies" :> JObject(<<"a">> :> <<"^", "1">>))
                 @@ ("devDependencies" :> JObject(<<"a">> :> <<"2">>))
    /\ pkgOut = Returned({EntryRecord(<<"a">>, <<"^", "1">>, FALSE),
                          EntryRecord(<<"a">>, <<"2">>, TRUE)})

-----------------------------------------------------------------------------
(* Properties of the commit of the records *)

\* what `git log` gives _get_git_commit in the repository: the commit it
\* prints, without the newline, and None when git is missing or fails
ResolvedCommit(env, repo) ==
    IF env[repo].exc = "" THEN Strip(env[repo].output) ELSE None

\* the number of calls of _get_git_commit for the repository
CommitCalls(did, repo) ==
    Cardinality({i \in DOMAIN did.git_calls : did.git_calls[i] = repo})

\* an environment in which git is installed and every repository has a commit
WorkingGit == [r \in Repos |-> GitOutput(CommitOf(r) \o <<"\n">>)]

\* C12: a scan resolves the commit once for every repository whose scan
\* completes (and for no other), so once per repository in a scan that
\* returns; every record of the returned corpus carries the commit resolved
\* for the repository its path lies in, None when git is missing or failed
\* there; and a missing or failing git never makes a repository scan raise.
C12_Provenance ==
    Scanned =>
        /\ \A k \in DOMAIN result.did.scanned :
               /\ CommitCalls(result.did, result.did.scanned[k]) =
                      IF result.did.outs[k].kind = "return" THEN 1 ELSE 0
               /\ result.did.outs[k].kind =
                      _scan_repo(fs, WorkingGit, result.did.scanned[k]).out.kind
        /\ result.did.out.kind = "return" =>
               /\ \A repo \in Dirs(fs) : CommitCalls(result.did, repo) = 1
               /\ \A d \in result.did.out.value.value :
                      /\ d.path[1] \in Dirs(fs)
                      /\ d.git_commit = ResolvedCommit(git, d.path[1])

\* git works in r1 and fails in r2; the scan returned records of r1 with its
\* commit and records of r2 without one
C12_Witness ==
    /\ Scanned
    /\ result.did.out.kind = "return"
    /\ Dirs(fs) = {"r1", "r2"}
    /\ git["r1"].exc = ""
    /\ git["r2"].exc = "CalledProcessError"
    /\ \E d \in result.did.out.value.value :
           d.path[1] = "r1" /\ d.git_commit = <<"c", "1">>
    /\ \E d \in result.did.out.value.value :
           d.path[1] = "r2" /\ d.git_commit = None
    /\ Len(result.did.git_calls) = 2

-----------------------------------------------------------------------------
(* Properties of cli.main *)

\* the file holds the records of the set, one row each
CsvOf(file, records) ==
    /\ Len(file.rows) = Cardinality(records)
    /\ {file.rows[i] : i \in DOMAIN file.rows} =
           {CsvRow(_serialize_dependency(d)) : d \in records}

JsonOf(file, records) ==
    /\ Len(file) = Cardinality(records)
    /\ {file[i] : i \in DOMAIN file} =
           {JsonObject(_serialize_dependency(d)) : d \in records}

\* C13: main returns 0 only after it wrote sbom.csv and sbom.json from the
\* corpus the scanner returned; it returns non-zero when the scan or a write
\* fails; and a run that returns non-zero has written neither file.
C13_NoPartialSbom ==
    exit_code # Pending =>
        /\ exit_code = Returned(0) =>
               /\ result.did.out.kind = "return"
               /\ corpus = result.did.out.value.value
               /\ DOMAIN cwd = OutputFiles
               /\ CsvOf(cwd["sbom.csv"], corpus)
               /\ JsonOf(cwd["sbom.json"], corpus)
        /\ (result.did.out.kind = "raise" \/ disk # {}) =>
               exit_code # Returned(0)
        /\ exit_code # Returned(0) => DOMAIN cwd = {}

-----------------------------------------------------------------------------
(* Properties of the SBOMWriter *)

\* o lists the records by ascending name
Ascending(o) ==
    \A i, j \in DOMAIN o : i < j => ~StrLess(o[j].name, o[i].name)

\* the text of an optional field in a CSV cell: empty when absent
CellOrEmpty(value) == IF value = None THEN <<>> ELSE value

\* the CSV row of a record: every field, the path as text
RowOf(d) ==
    <<d.name, CellOrEmpty(d.version), <<d.type>>, <<d.path[1], "/", d.path[2]>>,
      IF d.dev THEN <<"T", "r", "u", "e">> ELSE <<"F", "a", "l", "s", "e">>,
      CellOrEmpty(d.git_commit)>>

\* the JSON value of an optional field: null when absent
StringOrNull(value) ==
    IF value = None THEN [t |-> "null"] ELSE [t |-> "string", v |-> value]

\* the JSON object of a record: every field, the path as text
ObjectOf(d) ==
    [name |-> [t |-> "string", v |-> d.name],
     version |-> StringOrNull(d.version),
     type |-> [t |-> "string", v |-> <<d.type>>],
     path |-> [t |-> "string", v |-> <<d.path[1], "/", d.path[2]>>],
     dev |-> [t |-> "bool", v |-> d.dev],
     git_commit |-> StringOrNull(d.git_commit)]

\* C14: write_csv and write_json each write one row/object per record of the
\* set, by ascending name, with every field of the record; an absent version
\* or commit is an empty cell in the CSV and null in the JSON, and the path is
\* written as text.
C14_Rows ==
    DOMAIN cwd = OutputFiles =>
        /\ cwd["sbom.csv"].header = fieldnames
        /\ \E o \in Orders(corpus) :
               /\ Ascending(o)
               /\ cwd["sbom.csv"].rows = [i \in DOMAIN o |-> RowOf(o[i])]
        /\ \E o \in Orders(corpus) :
               /\ Ascending(o)
               /\ cwd["sbom.json"] = [i \in DOMAIN o |-> ObjectOf(o[i])]

\* the records b (no version, no commit) and ab were written: ab first, and
\* the row of b with two empty cells, its object with two nulls
C14_Witness ==
    /\ DOMAIN cwd = OutputFiles
    /\ Cardinality(corpus) = 2
    /\ Len(cwd["sbom.csv"].rows) = 2
    /\ cwd["sbom.csv"].rows[1][1] = <<"a", "b">>
    /\ cwd["sbom.csv"].rows[2] =
           <<(<<"b">>), (<<>>), (<<"npm">>), (<<"r2", "/", "package.json">>),
             (<<"T", "r", "u", "e">>), (<<>>)>>
    /\ cwd["sbom.json"][2].version = [t |-> "null"]
    /\ cwd["sbom.json"][2].git_commit = [t |-> "null"]
    /\ cwd["sbom.json"][2].dev = [t |-> "bool", v |-> TRUE]

-----------------------------------------------------------------------------
(* Properties of lockfiles of version 1 and 2 *)

\* the entries of the `dependencies` map of a lockfile of version 1 or 2,
\* those nested in the `dependencies` of another entry included
RECURSIVE EntriesV1(_)
EntriesV1(deps) ==
    {[name |-> name, info |-> deps[name]] : name \in DOMAIN deps}
    \cup UNION {EntriesV1(Get(deps[name], "dependencies", <<>>)) : name \in DOMAIN deps}

\* name, version and dev flag of the entries
EntryFields(entries) ==
    {[name |-> e.name, version |-> Get(e.info, "version", None),
      dev |-> Get(e.info, "dev", FALSE)] : e \in entries}

\* name, version and dev flag of the npm records
RecordFields(records) ==
    {[name |-> d.name, version |-> d.version, dev |-> d.dev]
        : d \in {e \in records : e.type = "npm"}}

\* C15: the scan of a repository whose only manifest is a package-lock.json
\* of version 1 or 2 returns, with one record per entry of the `dependencies`
\* map of the lockfile, nested entries included, each with the version and
\* the dev flag of its entry.
C15_OldLockParsed ==
    Scanned =>
        \A k \in DOMAIN result.did.scanned :
            (/\ DOMAIN fs[result.did.scanned[k]].files = {"package-lock.json"}
             /\ HasLockOf(fs, result.did.scanned[k], {1, 2})) =>
                /\ result.did.outs[k].kind = "return"
                /\ RecordFields(result.did.outs[k].value) =
                       EntryFields(EntriesV1(
                           Get(ReadFile(fs, LockPath(result.did.scanned[k])),
                               "dependencies", <<>>)))

-----------------------------------------------------------------------------
(* Properties of repeated calls of get_dependencies *)

\* the corpus holds the records of every repository under the root
HoldsEveryRepository(records) ==
    \A repo \in Dirs(fs) :
        /\ _scan_repo(fs, git, repo).out.kind = "return"
        /\ _scan_repo(fs, git, repo).out.value \subseteq records

\* C16: on one scanner, whatever calls of get_dependencies came before, a call
\* raises or returns a non-empty corpus that holds the records of every
\* repository under the root; also after a call that raised.
C16_NeverPartial ==
    (result # Pending /\ result.did.out.kind = "return") =>
        /\ result.did.out.value.value # {}
        /\ HoldsEveryRepository(result.did.out.value.value)

-----------------------------------------------------------------------------
(* Properties of the names of the records *)

\* no record of what the call returned has the empty name
NamesNonEmpty(out) ==
    out.kind = "return" => \A d \in out.value : d.name # <<>>

\* C17: every record the parsers return, and so every record of a corpus
\* get_dependencies returns (a repository scan changes the commit of a record
\* and nothing else), has a non-empty name, whatever the content of
\* requirements.txt, of the maps of package.json and of the `packages` map.
C17_NonEmptyNames ==
    /\ NamesNonEmpty(reqOut)
    /\ NamesNonEmpty(pkgOut)
    /\ NamesNonEmpty(lockOut)
    /\ (result # Pending /\ result.did.out.kind = "return") =>
           NamesNonEmpty(result.did.out.value)

-----------------------------------------------------------------------------
(* Properties of the order of the rows *)

\* C18: the rows write_csv and write_json write are determined by the corpus
\* as a set: two writes of the same corpus give the same sequence of rows and
\* of objects, in whatever order the set is iterated, also when records share
\* a name.
C18_Deterministic ==
    (DOMAIN cwd = OutputFiles /\ DOMAIN earlier = OutputFiles) =>
        /\ cwd["sbom.csv"].rows = earlier["sbom.csv"].rows
        /\ cwd["sbom.json"] = earlier["sbom.json"]

====
